---- MODULE Spec2Model ----
(***************************************************************************)
(* ReproduceResults.py: the driver that learns an oMHN and a cMHN for the  *)
(* COAD and the LUAD data and saves each fitted network under results/.    *)
(*                                                                         *)
(* The statements of compute_mhns_for_data are kept as an instruction      *)
(* table (Body), executed one statement per step.  The mhn optimizers and  *)
(* numpy's random state are not part of the repository: their results are  *)
(* kept as terms over their inputs (class, penalty, data, lambda, random   *)
(* state), so two results are equal only when every input they were        *)
(* computed from is equal.  No statement is inside a try: whichever one    *)
(* raises (a library call, np.random.seed or a print) ends the process.    *)
(***************************************************************************)
EXTENDS Integers, Sequences, FiniteSets, TLC

VARIABLES run, entry, status, mainpc, frame, rng, objs, calls, console,
          writes, csv, finished

vars == <<run, entry, status, mainpc, frame, rng, objs, calls, console,
          writes, csv, finished>>

(* ------------------------------ bounds --------------------------------- *)

\* number of processes (runs of the interpreter) observed one after another
MaxRuns == 2
\* distinct contents a dataset CSV may have (0 stands for a missing file)
NumContents == 2
\* distinct states the random generator may start a process in, besides 0
NumEntropy == 1
\* longest cut of a printed lambda value a failing print may leave on stdout
\* (the rendering of a float has at most 24 characters: sign, 17 digits,
\* point and exponent, so every proper cut of one has at most 23)
MaxLambdaChars == 23

(* ---------------------------- configuration ---------------------------- *)

PATH_TO_COAD_CSV == "data/COAD_n12.csv"
PATH_TO_LUAD_CSV == "data/LUAD_n12.csv"

Paths == {PATH_TO_COAD_CSV, PATH_TO_LUAD_CSV}

\* keyword arguments of both lambda_from_cv calls
CVArgs == [lambda_min |-> "0.0001", lambda_max |-> "0.1", steps |-> 9,
           nfolds |-> 5, show_progressbar |-> TRUE]

\* the argument of np.random.seed
SeedValue == 0

\* main with the second call reading the first call's file
MainCallsSamePath == << [path |-> PATH_TO_COAD_CSV, output_name |-> "COAD"],
                        [path |-> PATH_TO_COAD_CSV, output_name |-> "LUAD"] >>

\* main with its two calls in the other order
MainCallsSwapped == << [path |-> PATH_TO_LUAD_CSV, output_name |-> "LUAD"],
                       [path |-> PATH_TO_COAD_CSV, output_name |-> "COAD"] >>

\* the two calls main makes, in order
MainCalls == << [path |-> PATH_TO_COAD_CSV, output_name |-> "COAD"],
                [path |-> PATH_TO_LUAD_CSV, output_name |-> "LUAD"] >>

Instr(line, op, var, lit) == [line |-> line, op |-> op, var |-> var, lit |-> lit]

\* compute_mhns_for_data with the oMHN penalty set after the lambda selection
BodyPenaltyAfterCV == <<
  Instr(12, "seed",           "",              ""),
  Instr(13, "print_learn",    "",              "Learn oMHN for "),
  Instr(14, "construct",      "omega_opt",     "oMHNOptimizer"),
  Instr(16, "load",           "omega_opt",     ""),
  Instr(17, "lambda_from_cv", "omega_opt",     ""),
  Instr(15, "set_penalty",    "omega_opt",     "SYM_SPARSE"),
  Instr(18, "print_lambda",   "",              "optimal lambda: "),
  Instr(19, "train",          "omega_opt",     ""),
  Instr(20, "save",           "omega_opt",     "_oMHN.csv"),
  Instr(22, "print_learn",    "",              "Learn cMHN for "),
  Instr(23, "construct",      "classical_opt", "cMHNOptimizer"),
  Instr(24, "load",           "classical_opt", ""),
  Instr(25, "set_penalty",    "classical_opt", "SYM_SPARSE"),
  Instr(26, "lambda_from_cv", "classical_opt", ""),
  Instr(27, "print_lambda",   "",              "optimal lambda: "),
  Instr(28, "train",          "classical_opt", ""),
  Instr(29, "save",           "classical_opt", "_cMHN.csv") >>

\* compute_mhns_for_data with the oMHN data loaded before the penalty is set
BodyOmegaLoadFirst == <<
  Instr(12, "seed",           "",              ""),
  Instr(13, "print_learn",    "",              "Learn oMHN for "),
  Instr(14, "construct",      "omega_opt",     "oMHNOptimizer"),
  Instr(16, "load",           "omega_opt",     ""),
  Instr(15, "set_penalty",    "omega_opt",     "SYM_SPARSE"),
  Instr(17, "lambda_from_cv", "omega_opt",     ""),
  Instr(18, "print_lambda",   "",              "optimal lambda: "),
  Instr(19, "train",          "omega_opt",     ""),
  Instr(20, "save",           "omega_opt",     "_oMHN.csv"),
  Instr(22, "print_learn",    "",              "Learn cMHN for "),
  Instr(23, "construct",      "classical_opt", "cMHNOptimizer"),
  Instr(24, "load",           "classical_opt", ""),
  Instr(25, "set_penalty",    "classical_opt", "SYM_SPARSE"),
  Instr(26, "lambda_from_cv", "classical_opt", ""),
  Instr(27, "print_lambda",   "",              "optimal lambda: "),
  Instr(28, "train",          "classical_opt", ""),
  Instr(29, "save",           "classical_opt", "_cMHN.csv") >>

\* compute_mhns_for_data with line 28 training omega_opt again
BodyTrainOmegaTwice == <<
  Instr(12, "seed",           "",              ""),
  Instr(13, "print_learn",    "",              "Learn oMHN for "),
  Instr(14, "construct",      "omega_opt",     "oMHNOptimizer"),
  Instr(15, "set_penalty",    "omega_opt",     "SYM_SPARSE"),
  Instr(16, "load",           "omega_opt",     ""),
  Instr(17, "lambda_from_cv", "omega_opt",     ""),
  Instr(18, "print_lambda",   "",              "optimal lambda: "),
  Instr(19, "train",          "omega_opt",     ""),
  Instr(20, "save",           "omega_opt",     "_oMHN.csv"),
  Instr(22, "print_learn",    "",              "Learn cMHN for "),
  Instr(23, "construct",      "classical_opt", "cMHNOptimizer"),
  Instr(24, "load",           "classical_opt", ""),
  Instr(25, "set_penalty",    "classical_opt", "SYM_SPARSE"),
  Instr(26, "lambda_from_cv", "classical_opt", ""),
  Instr(27, "print_lambda",   "",              "optimal lambda: "),
  Instr(28, "train",          "omega_opt"    , ""),
  Instr(29, "save",           "classical_opt", "_cMHN.csv") >>

\* the statements of compute_mhns_for_data, in source order
Body == <<
  Instr(12, "seed",           "",              ""),
  Instr(13, "print_learn",    "",              "Learn oMHN for "),
  Instr(14, "construct",      "omega_opt",     "oMHNOptimizer"),
  Instr(15, "set_penalty",    "omega_opt",     "SYM_SPARSE"),
  Instr(16, "load",           "omega_opt",     ""),
  Instr(17, "lambda_from_cv", "omega_opt",     ""),
  Instr(18, "print_lambda",   "",              "optimal lambda: "),
  Instr(19, "train",          "omega_opt",     ""),
  Instr(20, "save",           "omega_opt",     "_oMHN.csv"),
  Instr(22, "print_learn",    "",              "Learn cMHN for "),
  Instr(23, "construct",      "classical_opt", "cMHNOptimizer"),
  Instr(24, "load",           "classical_opt", ""),
  Instr(25, "set_penalty",    "classical_opt", "SYM_SPARSE"),
  Instr(26, "lambda_from_cv", "classical_opt", ""),
  Instr(27, "print_lambda",   "",              "optimal lambda: "),
  Instr(28, "train",          "classical_opt", ""),
  Instr(29, "save",           "classical_opt", "_cMHN.csv") >>

(* ------------------------ values of the library ------------------------ *)

\* the random state: the last seed and the calls that drew from it since
SeededRng(s) == [seed |-> s, trace |-> <<>>]

Draw(r, op, o) == [r EXCEPT !.trace = Append(@, <<op, o.cls, o.penalty, o.data>>)]

NoLambda == [cls |-> "none", penalty |-> "none", data |-> 0,
             rng |-> SeededRng(0), args |-> CVArgs]

\* the scalar lambda_from_cv returns for optimizer o under random state r
LambdaOf(o, r) == [cls |-> o.cls, penalty |-> o.penalty, data |-> o.data,
                   rng |-> r, args |-> CVArgs]

NoResult == [cls |-> "none", penalty |-> "none", data |-> 0,
             lam |-> NoLambda, rng |-> SeededRng(0)]

\* the network train(lam) leaves in o.result under random state r
ResultOf(o, lam, r) == [cls |-> o.cls, penalty |-> o.penalty, data |-> o.data,
                        lam |-> lam, rng |-> r]

\* a freshly constructed optimizer of class cls
NewOptimizer(cls) == [cls |-> cls, penalty |-> "DEFAULT", data |-> 0,
                      result |-> NoResult]

\* a save path that leaves the model variant out
SavePathNoVariant(output_name, suffix) == "results/" \o output_name \o ".csv"

\* the path of the file result.save is given
SavePath(output_name, suffix) == "results/" \o output_name \o suffix

NoFrame == [active |-> FALSE, path |-> "", output_name |-> "", pc |-> 0,
            omega_opt |-> 0, classical_opt |-> 0, optimal_lambda |-> NoLambda]

Event(inst, op, ok, sarg, lam) ==
  [inst |-> inst, op |-> op, ok |-> ok, label |-> frame.output_name,
   sarg |-> sarg, lam |-> lam]

\* what one print has put on stdout: text is the part of the literal and the
\* label that is out; lam is the lambda whose rendering follows it, out in
\* full (lamWhole) or cut after lamChars characters; nl is the newline
Printed(text, lam, lamChars, lamWhole, nl) ==
  [text |-> text, lam |-> lam, lamChars |-> lamChars, lamWhole |-> lamWhole,
   nl |-> nl]

\* the non-empty prefixes of a text
Prefixes(text) == {SubSeq(text, 1, n) : n \in 1..Len(text)}

(* ------------------------------- state --------------------------------- *)

Init ==
  /\ run = 1
  /\ entry = "none"
  /\ status = "idle"
  /\ mainpc = 0
  /\ frame = NoFrame
  /\ rng = SeededRng(0)
  /\ objs = <<>>
  /\ calls = <<>>
  /\ console = <<>>
  /\ writes = <<>>
  /\ csv \in [Paths -> 0..NumContents]
  /\ finished = <<>>

\* the statement the active call of compute_mhns_for_data is at
AtBody == status = "running" /\ frame.active /\ frame.pc \in 1..Len(Body)
Cur == Body[frame.pc]
At(op) == AtBody /\ Cur.op = op
Step == [frame EXCEPT !.pc = @ + 1]
Self == frame[Cur.var]

Enter(c) == [NoFrame EXCEPT !.active = TRUE, !.path = c.path,
                            !.output_name = c.output_name, !.pc = 1]

\* python ReproduceResults.py: a new process, random state from the system
StartMain ==
  /\ status = "idle"
  /\ \E e \in 0..NumEntropy : rng' = SeededRng(e)
  /\ entry' = "main"
  /\ status' = "running"
  /\ mainpc' = 1
  /\ UNCHANGED <<run, frame, objs, calls, console, writes, csv, finished>>

\* import ReproduceResults; compute_mhns_for_data(path, label) on its own
StartCompute ==
  /\ status = "idle"
  /\ \E e \in 0..NumEntropy : rng' = SeededRng(e)
  /\ \E i \in 1..Len(MainCalls) :
        /\ entry' = MainCalls[i].output_name
        /\ frame' = Enter(MainCalls[i])
  /\ status' = "running"
  /\ mainpc' = 0
  /\ UNCHANGED <<run, objs, calls, console, writes, csv, finished>>

\* main: the next call of compute_mhns_for_data
MainCall ==
  /\ status = "running" /\ entry = "main" /\ ~frame.active
  /\ mainpc \in 1..Len(MainCalls)
  /\ frame' = Enter(MainCalls[mainpc])
  /\ UNCHANGED <<run, entry, status, mainpc, rng, objs, calls, console,
                 writes, csv, finished>>

\* compute_mhns_for_data returns
Return ==
  /\ status = "running" /\ frame.active /\ frame.pc = Len(Body) + 1
  /\ frame' = NoFrame
  /\ IF entry = "main" THEN mainpc' = mainpc + 1 /\ status' = status
                       ELSE mainpc' = mainpc /\ status' = "done"
  /\ UNCHANGED <<run, entry, rng, objs, calls, console, writes, csv, finished>>

\* main returns
MainReturn ==
  /\ status = "running" /\ entry = "main" /\ ~frame.active
  /\ mainpc = Len(MainCalls) + 1
  /\ status' = "done"
  /\ UNCHANGED <<run, entry, mainpc, frame, rng, objs, calls, console,
                 writes, csv, finished>>

\* compute_mhns_for_data without the call of np.random.seed
SeedSkipped ==
  /\ At("seed")
  /\ frame' = Step
  /\ UNCHANGED <<run, entry, status, mainpc, rng, objs, calls, console, writes,
                 csv, finished>>

\* the random state seeded by the first call of a process only
SeedOnce ==
  /\ At("seed")
  /\ rng' = IF calls = <<>> THEN SeededRng(SeedValue) ELSE rng
  /\ calls' = Append(calls, Event(0, "seed", TRUE, ToString(SeedValue), NoLambda))
  /\ frame' = Step
  /\ UNCHANGED <<run, entry, status, mainpc, objs, console, writes, csv, finished>>

\* np.random.seed(0)
Seed ==
  /\ At("seed")
  /\ rng' = SeededRng(SeedValue)
  /\ calls' = Append(calls, Event(0, "seed", TRUE, ToString(SeedValue), NoLambda))
  /\ frame' = Step
  /\ UNCHANGED <<run, entry, status, mainpc, objs, console, writes, csv, finished>>

\* print(f"Learn oMHN for {output_name}"), print(f"Learn cMHN for {output_name}")
PrintLearn ==
  /\ At("print_learn")
  /\ console' = Append(console, Printed(Cur.lit \o frame.output_name,
                                         NoLambda, 0, FALSE, TRUE))
  /\ frame' = Step
  /\ UNCHANGED <<run, entry, status, mainpc, rng, objs, calls, writes, csv, finished>>

\* print(f"optimal lambda: {optimal_lambda}")
PrintLambda ==
  /\ At("print_lambda")
  /\ console' = Append(console, Printed(Cur.lit, frame.optimal_lambda,
                                         0, TRUE, TRUE))
  /\ frame' = Step
  /\ UNCHANGED <<run, entry, status, mainpc, rng, objs, calls, writes, csv, finished>>

\* omega_opt = oMHNOptimizer(), classical_opt = cMHNOptimizer()
Construct ==
  /\ At("construct")
  /\ objs' = Append(objs, NewOptimizer(Cur.lit))
  /\ frame' = [Step EXCEPT ![Cur.var] = Len(objs) + 1]
  /\ calls' = Append(calls, Event(Len(objs) + 1, "construct", TRUE, Cur.lit, NoLambda))
  /\ UNCHANGED <<run, entry, status, mainpc, rng, console, writes, csv, finished>>

\* opt.set_penalty(opt.Penalty.SYM_SPARSE)
SetPenalty ==
  /\ At("set_penalty")
  /\ objs' = [objs EXCEPT ![Self].penalty = Cur.lit]
  /\ calls' = Append(calls, Event(Self, "set_penalty", TRUE, Cur.lit, NoLambda))
  /\ frame' = Step
  /\ UNCHANGED <<run, entry, status, mainpc, rng, console, writes, csv, finished>>

\* opt.load_data_from_csv(path), the file being there
Load ==
  /\ At("load")
  /\ csv[frame.path] # 0
  /\ objs' = [objs EXCEPT ![Self].data = csv[frame.path]]
  /\ calls' = Append(calls, Event(Self, "load", TRUE, frame.path, NoLambda))
  /\ frame' = Step
  /\ UNCHANGED <<run, entry, status, mainpc, rng, console, writes, csv, finished>>

\* lambda_from_cv called with its result assigned by the oMHN half only
LambdaFromCVFirstOnly ==
  /\ At("lambda_from_cv")
  /\ frame' = IF frame.optimal_lambda = NoLambda
                 THEN [Step EXCEPT !.optimal_lambda = LambdaOf(objs[Self], rng)]
                 ELSE Step
  /\ rng' = Draw(rng, "lambda_from_cv", objs[Self])
  /\ calls' = Append(calls, Event(Self, "lambda_from_cv", TRUE, "",
                                  LambdaOf(objs[Self], rng)))
  /\ UNCHANGED <<run, entry, status, mainpc, objs, console, writes, csv, finished>>

\* optimal_lambda = opt.lambda_from_cv(...)
LambdaFromCV ==
  /\ At("lambda_from_cv")
  /\ frame' = [Step EXCEPT !.optimal_lambda = LambdaOf(objs[Self], rng)]
  /\ rng' = Draw(rng, "lambda_from_cv", objs[Self])
  /\ calls' = Append(calls, Event(Self, "lambda_from_cv", TRUE, "",
                                  LambdaOf(objs[Self], rng)))
  /\ UNCHANGED <<run, entry, status, mainpc, objs, console, writes, csv, finished>>

\* opt.train(lam=optimal_lambda)
Train ==
  /\ At("train")
  /\ objs' = [objs EXCEPT ![Self].result =
                 ResultOf(objs[Self], frame.optimal_lambda, rng)]
  /\ rng' = Draw(rng, "train", objs[Self])
  /\ calls' = Append(calls, Event(Self, "train", TRUE, "", frame.optimal_lambda))
  /\ frame' = Step
  /\ UNCHANGED <<run, entry, status, mainpc, console, writes, csv, finished>>

\* opt.result.save(f"results/{output_name}_oMHN.csv") and its cMHN twin
Save ==
  /\ At("save")
  /\ writes' = Append(writes, [path |-> SavePath(frame.output_name, Cur.lit),
                               content |-> objs[Self].result])
  /\ calls' = Append(calls, Event(Self, "save", TRUE,
                                  SavePath(frame.output_name, Cur.lit), NoLambda))
  /\ frame' = Step
  /\ UNCHANGED <<run, entry, status, mainpc, rng, objs, console, csv, finished>>

\* what the statement that raises may have put on stdout before it failed:
\* nothing for a library call; for a print, any non-empty prefix of its
\* output (the device takes what it can), up to the whole text without the
\* newline.  The cut may fall inside the literal, inside the label or inside
\* the printed lambda value.
PartialPrints ==
  IF Cur.op = "print_learn"
    THEN {Printed(t, NoLambda, 0, FALSE, FALSE) :
             t \in Prefixes(Cur.lit \o frame.output_name)}
  ELSE IF Cur.op = "print_lambda"
    THEN {Printed(t, NoLambda, 0, FALSE, FALSE) : t \in Prefixes(Cur.lit)}
         \cup {Printed(Cur.lit, frame.optimal_lambda, n, FALSE, FALSE) :
                  n \in 1..MaxLambdaChars}
         \cup {Printed(Cur.lit, frame.optimal_lambda, 0, TRUE, FALSE)}
  ELSE {}

\* a raised exception caught around the dataset, the run going on
RaiseSwallowed ==
  /\ AtBody
  /\ calls' = Append(calls, Event(IF Cur.op = "construct" \/ Cur.var = "" THEN 0 ELSE Self,
                                  Cur.op, FALSE, "", NoLambda))
  /\ console' \in {console} \cup {Append(console, out) : out \in PartialPrints}
  /\ frame' = [frame EXCEPT !.pc = Len(Body) + 1]
  /\ UNCHANGED <<run, entry, status, mainpc, rng, objs, writes, csv, finished>>

\* the current statement raises (any of lines 12-29: a library call, the
\* seeding or a print); nothing catches it and the process ends.  A print
\* that raises may already have written any part of its output.
Raise ==
  /\ AtBody
  /\ calls' = Append(calls, Event(IF Cur.op = "construct" \/ Cur.var = "" THEN 0 ELSE Self,
                                  Cur.op, FALSE, "",
                                  IF Cur.op = "train" THEN frame.optimal_lambda
                                                      ELSE NoLambda))
  /\ console' \in {console} \cup {Append(console, out) : out \in PartialPrints}
  /\ status' = "raised"
  /\ UNCHANGED <<run, entry, mainpc, frame, rng, objs, writes, csv, finished>>

\* the process has ended; its record is kept and the next one may start
Exit ==
  /\ status \in {"done", "raised"}
  /\ run < MaxRuns
  /\ finished' = Append(finished, [entry |-> entry, status |-> status,
                                   writes |-> writes])
  /\ run' = run + 1
  /\ entry' = "none"
  /\ status' = "idle"
  /\ mainpc' = 0
  /\ frame' = NoFrame
  /\ rng' = SeededRng(0)
  /\ objs' = <<>>
  /\ calls' = <<>>
  /\ console' = <<>>
  /\ writes' = <<>>
  /\ UNCHANGED csv

Next ==
  \/ StartMain \/ StartCompute \/ MainCall \/ Return \/ MainReturn
  \/ Seed \/ PrintLearn \/ PrintLambda \/ Construct \/ SetPenalty \/ Load
  \/ LambdaFromCV \/ Train \/ Save \/ Raise \/ Exit

Spec == Init /\ [][Next]_vars

(* ----------------------------- properties ------------------------------ *)

TypeOK ==
  /\ run \in 1..MaxRuns
  /\ status \in {"idle", "running", "done", "raised"}
  /\ entry \in {"none", "main", "COAD", "LUAD"}
  /\ Len(writes) <= 2 * Len(MainCalls)
  /\ Len(finished) = run - 1

Idx == 1..Len(calls)
Insts == 1..Len(objs)

\* call k is operation op on instance i
Is(k, i, op) == calls[k].inst = i /\ calls[k].op = op

\* some call of op on instance i has returned before call k
ReturnedBefore(k, i, op) == \E j \in 1..(k - 1) : Is(j, i, op) /\ calls[j].ok

\* the (label, class) pairs of the optimizers constructed so far, in order
RECURSIVE PairsOf(_)
PairsOf(cs) ==
  IF cs = <<>> THEN <<>>
  ELSE LET rest == PairsOf(SubSeq(cs, 1, Len(cs) - 1))
           c == cs[Len(cs)]
       IN IF c.op = "construct" /\ c.ok
            THEN Append(rest, <<c.label, c.sarg>>) ELSE rest

IsPrefix(a, b) == Len(a) <= Len(b) /\ a = SubSeq(b, 1, Len(a))

WritePaths(ws) == [k \in 1..Len(ws) |-> ws[k].path]

\* the runs seen so far: the finished ones and the current one
AllRuns == Append(finished, [entry |-> entry, status |-> status, writes |-> writes])

\* C1: on every optimizer instance, set_penalty has returned before
\* lambda_from_cv is called, and lambda_from_cv has returned before train is
\* called.
C1_PenaltyThenLambdaThenTrain ==
  \A k \in Idx : \A i \in Insts :
    /\ Is(k, i, "lambda_from_cv") => ReturnedBefore(k, i, "set_penalty")
    /\ Is(k, i, "train") => ReturnedBefore(k, i, "lambda_from_cv")

C1_Witness ==
  \E k \in Idx : calls[k].op = "train" /\ calls[k].ok
                 /\ objs[calls[k].inst].cls = "cMHNOptimizer"

\* C2: when main has returned, exactly the four files results/L_oMHN.csv and
\* results/L_cMHN.csv for L in {COAD, LUAD} have been written, each once.
C2_FourArtifacts ==
  (entry = "main" /\ status = "done") =>
    /\ {writes[k].path : k \in 1..Len(writes)} =
         {"results/COAD_oMHN.csv", "results/COAD_cMHN.csv",
          "results/LUAD_oMHN.csv", "results/LUAD_cMHN.csv"}
    /\ Len(writes) = 4
    /\ \A k \in 1..Len(writes) : writes[k].content # NoResult

C2_Witness == entry = "main" /\ status = "done" /\ Len(writes) = 4

\* C3: when the CSV of a dataset is missing, neither of that dataset's two
\* result files is written in the run.
C3_MissingCsvWritesNothing ==
  /\ csv[PATH_TO_COAD_CSV] = 0 =>
       \A k \in 1..Len(writes) :
         writes[k].path \notin {"results/COAD_oMHN.csv", "results/COAD_cMHN.csv"}
  /\ csv[PATH_TO_LUAD_CSV] = 0 =>
       \A k \in 1..Len(writes) :
         writes[k].path \notin {"results/LUAD_oMHN.csv", "results/LUAD_cMHN.csv"}

C3_Witness ==
  /\ csv[PATH_TO_LUAD_CSV] = 0
  /\ status = "raised" /\ entry = "main"
  /\ calls[Len(calls)].op = "load" /\ ~calls[Len(calls)].ok
  /\ calls[Len(calls)].label = "LUAD"
  /\ Len(writes) = 2

\* C4: two complete runs of main over the same CSV contents write the same
\* sequence of (path, content) pairs, whatever random state each process
\* started in.
C4_TwoRunsSameArtifacts ==
  \A a, b \in 1..Len(AllRuns) :
    ( /\ AllRuns[a].entry = "main" /\ AllRuns[a].status = "done"
      /\ AllRuns[b].entry = "main" /\ AllRuns[b].status = "done" )
    => AllRuns[a].writes = AllRuns[b].writes

C4_Witness ==
  /\ Len(finished) >= 1
  /\ finished[1].entry = "main" /\ finished[1].status = "done"
  /\ entry = "main" /\ status = "done"
  /\ Len(writes) = 4

\* C5: once a call has raised, no further call is made and no file is
\* written for as long as that process lasts.
C5_FailureEndsRun ==
  [][ ((\E k \in Idx : ~calls[k].ok) /\ run' = run)
        => (calls' = calls /\ writes' = writes /\ console' = console) ]_vars

C5_Witness ==
  /\ status = "raised" /\ entry = "main"
  /\ calls[Len(calls)].op = "train" /\ calls[Len(calls)].label = "COAD"
  /\ objs[calls[Len(calls)].inst].cls = "oMHNOptimizer"

\* C6: main constructs its optimizers in the order COAD oMHN, COAD cMHN,
\* LUAD oMHN, LUAD cMHN, and the call right before the construction of a
\* dataset's oMHN optimizer is np.random.seed(0) for that dataset, so that
\* past the first statement the random state derives from seed 0 and from
\* calls on the current dataset only.
C6_FixedOrder ==
  /\ entry = "main" =>
       IsPrefix(PairsOf(calls),
                << <<"COAD", "oMHNOptimizer">>, <<"COAD", "cMHNOptimizer">>,
                   <<"LUAD", "oMHNOptimizer">>, <<"LUAD", "cMHNOptimizer">> >>)
  /\ \A k \in Idx :
       (calls[k].op = "construct" /\ calls[k].sarg = "oMHNOptimizer") =>
          /\ k > 1
          /\ calls[k - 1].op = "seed" /\ calls[k - 1].sarg = "0"
          /\ calls[k - 1].label = calls[k].label
  /\ (frame.active /\ frame.pc > 1) =>
       /\ rng.seed = 0
       /\ \A t \in 1..Len(rng.trace) : rng.trace[t][4] = csv[frame.path]

C6_Witness ==
  /\ entry = "main"
  /\ Len(PairsOf(calls)) = 4

\* C7 as stated: on every optimizer instance, of both classes, the penalty
\* has been set before the data is loaded.
C7_PenaltyBeforeLoadBoth ==
  \A k \in Idx : \A i \in Insts :
    Is(k, i, "load") => ReturnedBefore(k, i, "set_penalty")

\* C7 amended: the oMHN optimizer is constructed, then its penalty is set to
\* SYM_SPARSE, then the data is loaded; the cMHN optimizer is constructed,
\* then the data is loaded, then its penalty is set to SYM_SPARSE; on both,
\* the two steps come before the lambda selection.
C7_StepOrderPerVariant ==
  \A k \in Idx : \A i \in Insts :
    /\ (Is(k, i, "load") /\ objs[i].cls = "oMHNOptimizer")
          => ReturnedBefore(k, i, "set_penalty")
    /\ (Is(k, i, "set_penalty") /\ objs[i].cls = "cMHNOptimizer")
          => ReturnedBefore(k, i, "load")
    /\ Is(k, i, "set_penalty") /\ calls[k].ok
          => calls[k].sarg = "SYM_SPARSE" /\ ~ReturnedBefore(k, i, "lambda_from_cv")
    /\ Is(k, i, "lambda_from_cv")
          => ReturnedBefore(k, i, "load") /\ ReturnedBefore(k, i, "set_penalty")
             /\ objs[i].penalty = "SYM_SPARSE"

C7_Witness ==
  \E k \in Idx : /\ calls[k].op = "lambda_from_cv" /\ calls[k].ok
                 /\ objs[calls[k].inst].cls = "cMHNOptimizer"
                 /\ calls[k - 1].op = "set_penalty"
                 /\ calls[k - 2].op = "load"

\* C8: every optimizer instance is constructed once, for one dataset, gets at
\* most one set_penalty, lambda_from_cv, train and save call, its save is the
\* call right after its train, and no two instances of a process serve the
\* same (dataset, class) pair.
C8_InstanceUsedOnce ==
  /\ \A i \in Insts :
       /\ \A op \in {"construct", "set_penalty", "load", "lambda_from_cv",
                     "train", "save"} :
            Cardinality({k \in Idx : Is(k, i, op)}) <= 1
       /\ \A j, k \in Idx : (calls[j].inst = i /\ calls[k].inst = i)
                               => calls[j].label = calls[k].label
  /\ \A k \in Idx :
       (calls[k].op = "train" /\ calls[k].ok /\ k < Len(calls))
          => Is(k + 1, calls[k].inst, "save")
  /\ \A k \in Idx :
       calls[k].op = "save" => (k > 1 /\ Is(k - 1, calls[k].inst, "train"))
  /\ \A j, k \in Idx :
       ( /\ calls[j].op = "construct" /\ calls[k].op = "construct"
         /\ calls[j].ok /\ calls[k].ok /\ j # k )
       => <<calls[j].label, calls[j].sarg>> # <<calls[k].label, calls[k].sarg>>

C8_Witness ==
  /\ Len(objs) = 4
  /\ \E k \in Idx : Is(k, 4, "save") /\ calls[k].ok

\* C9: the lambda given to train on an instance is the value lambda_from_cv
\* returned on that same instance.
C9_TrainUsesOwnLambda ==
  \A k \in Idx : \A i \in Insts :
    Is(k, i, "train") =>
      \E j \in 1..(k - 1) : /\ Is(j, i, "lambda_from_cv") /\ calls[j].ok
                            /\ calls[j].lam = calls[k].lam
                            /\ calls[k].lam.cls = objs[i].cls
                            /\ calls[k].lam.data = objs[i].data

C9_Witness ==
  \E k \in Idx : /\ calls[k].op = "train" /\ calls[k].ok
                 /\ calls[k].label = "LUAD" /\ entry = "main"
                 /\ objs[calls[k].inst].cls = "cMHNOptimizer"
                 /\ csv[PATH_TO_COAD_CSV] # csv[PATH_TO_LUAD_CSV]

\* C10: a complete call of compute_mhns_for_data for LUAD alone writes the
\* same two artifacts as main writes for LUAD after it has processed COAD.
C10_LuadAloneSameAsAfterCoad ==
  \A a, b \in 1..Len(AllRuns) :
    ( /\ AllRuns[a].entry = "main" /\ AllRuns[a].status = "done"
      /\ AllRuns[b].entry = "LUAD" /\ AllRuns[b].status = "done" )
    => /\ Len(AllRuns[a].writes) = 4
       /\ SubSeq(AllRuns[a].writes, 3, 4) = AllRuns[b].writes

C10_Witness ==
  /\ Len(finished) >= 1
  /\ finished[1].entry = "main" /\ finished[1].status = "done"
  /\ entry = "LUAD" /\ status = "done"
  /\ Len(writes) = 2
====
